---- MODULE Spec2Model ----
(***************************************************************************)
(* State-machine model of the sleep detection service                      *)
(* (src/services/sleepDetection.ts), the session store                     *)
(* (src/services/storage.ts) and the Dashboard's manual sleep toggle       *)
(* (src/app/(tabs)/index.tsx).                                             *)
(*                                                                         *)
(* JavaScript runs one synchronous segment at a time; an async function    *)
(* gives up control only at an await.  Every action below is one such      *)
(* segment: the code from a call (or from the resumption after an await)   *)
(* up to the next await that really waits (an AsyncStorage operation or    *)
(* the permission request).                                                *)
(*                                                                         *)
(* Units.  Time is counted in units of 3 minutes, so that                  *)
(* INACTIVITY_THRESHOLD (15 minutes) is 5 units and an hour is 20 units.   *)
(* Acceleration magnitude is counted in units of 0.05, so that             *)
(* MOTION_THRESHOLD (0.1) is 2.  Probabilities are exact rationals, kept   *)
(* as integers in units of 1/ProbScale (hundredths, refined by the         *)
(* denominators an average over the recent window can produce).            *)
(***************************************************************************)
EXTENDS Integers, Naturals, Sequences, FiniteSets, TLC

(***************************** program constants ***************************)
\* 15 * 60 * 1000 ms, in 3-minute units
INACTIVITY_THRESHOLD == 5
\* 0.1, in units of 0.05
MOTION_THRESHOLD == 2
\* 0.8, in hundredths
SLEEP_CONFIDENCE_THRESHOLD == 80
\* the literal 0.3 of performSleepDetection, in hundredths
WAKE_THRESHOLD == 30

\* the "last 5 minutes" the listener means to keep, in minutes
RETENTION_MINUTES == 5

UnitsPerHour == 4 * INACTIVITY_THRESHOLD
\* INACTIVITY_THRESHOLD is 15 minutes
MinutesPerUnit == 15 \div INACTIVITY_THRESHOLD

(********************************* bounds **********************************)
\* stands for the 300 entries the motion buffer keeps
CAPACITY == 3
\* stands for the 60 most recent samples getRecentMotionLevel averages
RECENT == 2
\* how many 3-minute units the clock advances in one behaviour
MaxClockSteps == 5
\* AsyncStorage operations in flight or about to be issued
MaxQueue == 2
\* live timers (and live listeners) at one time
MaxHandles == 2
\* sessions created in one behaviour
MaxIds == 2
\* calls from outside in one behaviour: startTracking and stopTracking calls,
\* motion events delivered, presses of the manual sleep toggle
MaxEvents == 3

\* the clock values the service may be constructed at: 06:33 and 06:48
StartClocks == {6 * UnitsPerHour + 11, 6 * UnitsPerHour + 16}
\* magnitudes a sample may carry: still, exactly the threshold, above it
Magnitudes == {0, MOTION_THRESHOLD, MOTION_THRESHOLD + 1}

(******************************** helpers **********************************)
Min(a, b) == IF a <= b THEN a ELSE b
Max(a, b) == IF a >= b THEN a ELSE b

RECURSIVE Gcd(_, _)
Gcd(a, b) == IF b = 0 THEN a ELSE Gcd(b, a % b)

RECURSIVE LcmUpTo(_)
LcmUpTo(n) == IF n <= 1 THEN 1 ELSE (LcmUpTo(n - 1) * n) \div Gcd(LcmUpTo(n - 1), n)

\* common denominator of every average over at most RECENT samples
WindowLcm == LcmUpTo(RECENT)
\* probabilities are integers in units of 1/ProbScale
ProbScale == 100 * WindowLcm

\* Math.round(a / b) for b > 0: the nearest integer, halves rounded up
Round(a, b) == (2 * a + b) \div (2 * b)

\* Date.getHours() of a clock value
Hour(t) == (t \div UnitsPerHour) % 24

NoTime == -1
NoSession == [id |-> 0]

RECURSIVE SumMag(_)
SumMag(s) == IF s = <<>> THEN 0 ELSE Head(s).magnitude + SumMag(Tail(s))

\* Array.prototype.slice(-n)
SliceLast(s, n) == IF Len(s) <= n THEN s ELSE SubSeq(s, Len(s) - n + 1, Len(s))

\* Array.prototype.findIndex(x => x.id = id), 1-based; 0 when absent
RECURSIVE FindIndexFrom(_, _, _)
FindIndexFrom(s, id, i) ==
  IF i > Len(s) THEN 0
  ELSE IF s[i].id = id THEN i
  ELSE FindIndexFrom(s, id, i + 1)
FindIndex(s, id) == FindIndexFrom(s, id, 1)

(***************************** pure functions ******************************)
\* the threshold itself counting as significant
hasSignificantMotion_AtLeast(motion) == motion.magnitude >= MOTION_THRESHOLD

\* hasSignificantMotion: magnitude > MOTION_THRESHOLD
hasSignificantMotion(motion) == motion.magnitude > MOTION_THRESHOLD

\* the average taken over the whole buffer
recentMotions_WholeBuffer(buf) == buf

\* line 178: the samples getRecentMotionLevel averages, slice(-60)
recentMotions(buf) == SliceLast(buf, RECENT)

\* getRecentMotionLevel, in units of 1/(MOTION_THRESHOLD * WindowLcm):
\* min(sum / n / MOTION_THRESHOLD, 1), and 0 for an empty buffer; n divides
\* WindowLcm, so the division is exact
getRecentMotionLevel(buf) ==
  IF Len(buf) = 0 THEN 0
  ELSE LET rm == recentMotions(buf)
       IN  Min((SumMag(rm) * WindowLcm) \div Len(rm), MOTION_THRESHOLD * WindowLcm)

\* k * (1 - getRecentMotionLevel()) for an even weight k, in units of
\* 1/WindowLcm
OneMinusMotionTimes(buf, k) ==
  k * WindowLcm - (k * getRecentMotionLevel(buf)) \div MOTION_THRESHOLD

\* the night ending before 6 o'clock
timeOfDayFactor_NightBeforeSix(hour) ==
  IF hour >= 22 \/ hour < 6 THEN 30
  ELSE IF hour >= 13 /\ hour <= 15 THEN 15
  ELSE 0

\* the time-of-day factor, in hundredths
timeOfDayFactor(hour) ==
  IF hour >= 22 \/ hour <= 6 THEN 30
  ELSE IF hour >= 13 /\ hour <= 15 THEN 15
  ELSE 0

\* the charging factor granted at every hour
chargingFactor_AllDay(hour) == 10

\* the "battery charging" factor, in hundredths
chargingFactor(hour) == IF hour >= 23 \/ hour <= 6 THEN 10 ELSE 0

\* the inactivity factor growing without saturation
inactivityFactor_Unsaturated(inactivityDuration) ==
  (40 * WindowLcm * inactivityDuration) \div INACTIVITY_THRESHOLD

\* line 147: Math.min(inactivityDuration / INACTIVITY_THRESHOLD, 1) * 0.4, in
\* units of 1/ProbScale
inactivityFactor(inactivityDuration) ==
  (40 * WindowLcm * Min(inactivityDuration, INACTIVITY_THRESHOLD)) \div INACTIVITY_THRESHOLD

\* calculateSleepProbability, in units of 1/ProbScale
calculateSleepProbability(inactivityDuration, currentTime, buf) ==
  LET hour == Hour(currentTime)
      motionFactor == OneMinusMotionTimes(buf, 20)
      probability == inactivityFactor(inactivityDuration) + timeOfDayFactor(hour) * WindowLcm
                       + motionFactor + chargingFactor(hour) * WindowLcm
  IN  Min(probability, ProbScale)

\* calculateMotionQuality: Math.round((1 - avgMotion) * 100)
calculateMotionQuality(buf) == Round(OneMinusMotionTimes(buf, 100), WindowLcm)

\* the duration bands tried from the widest to the narrowest
durationBase_WidestFirst(duration) ==
  IF duration >= 5 * UnitsPerHour /\ duration <= 11 * UnitsPerHour THEN 60
  ELSE IF duration >= 6 * UnitsPerHour /\ duration <= 10 * UnitsPerHour THEN 75
  ELSE IF duration >= 7 * UnitsPerHour /\ duration <= 9 * UnitsPerHour THEN 90
  ELSE 40

\* the duration band of calculateSleepQuality; hours = duration / UnitsPerHour
durationBase(duration) ==
  IF duration >= 7 * UnitsPerHour /\ duration <= 9 * UnitsPerHour THEN 90
  ELSE IF duration >= 6 * UnitsPerHour /\ duration <= 10 * UnitsPerHour THEN 75
  ELSE IF duration >= 5 * UnitsPerHour /\ duration <= 11 * UnitsPerHour THEN 60
  ELSE 40

\* calculateSleepQuality: Math.round(max(0, min(100, (base + motion) / 2)))
calculateSleepQuality(duration, buf) ==
  LET q2 == durationBase(duration) + calculateMotionQuality(buf)
  IN  Round(Max(0, Min(200, q2)), 2)

(*********************************** JSON **********************************)
\* JSON.stringify of a session: Dates become ISO strings, null stays null
stringifyDate(t) == IF t = NoTime THEN [null |-> TRUE] ELSE [iso |-> t]
stringifySession(s) ==
  [id |-> s.id, bedtime |-> stringifyDate(s.bedtime), wakeTime |-> stringifyDate(s.wakeTime),
   duration |-> s.duration, quality |-> s.quality, isManual |-> s.isManual,
   confidence |-> s.confidence]
stringify(list) == [kind |-> "json", sessions |-> [i \in 1..Len(list) |-> stringifySession(list[i])]]

\* the mapping of getSleepSessions: new Date(bedtime), wakeTime ? new Date(wakeTime) : null
parseDate(j) == IF "iso" \in DOMAIN j THEN j.iso ELSE NoTime
parseSession(j) ==
  [id |-> j.id, bedtime |-> parseDate(j.bedtime), wakeTime |-> parseDate(j.wakeTime),
   duration |-> j.duration, quality |-> j.quality, isManual |-> j.isManual,
   confidence |-> j.confidence]

\* the value AsyncStorage.getItem finds under a key that was never written
Missing == [kind |-> "missing"]
\* a stored string that JSON.parse rejects
Unparseable == [kind |-> "unparseable"]
\* the stored string 'null': JSON.parse accepts it and gives null
JsonNull == [kind |-> "jsonNull"]

\* the try block of getSleepSessions (lines 31-41): getItem may reject,
\* JSON.parse may throw, and null.map throws a TypeError
getSleepSessionsBody(item, readOk) ==
  IF ~readOk THEN [threw |-> TRUE]
  ELSE IF item.kind = "missing" THEN [threw |-> FALSE, value |-> <<>>]
  ELSE IF item.kind \in {"unparseable", "jsonNull"} THEN [threw |-> TRUE]
  ELSE [threw |-> FALSE,
        value |-> [i \in 1..Len(item.sessions) |-> parseSession(item.sessions[i])]]

\* getSleepSessions with a catch block that throws again
getSleepSessionsOutcome_Rethrows(item, readOk) ==
  LET body == getSleepSessionsBody(item, readOk)
  IN  IF body.threw THEN [settled |-> "rejected"]
      ELSE [settled |-> "fulfilled", value |-> body.value]

\* how the promise of getSleepSessions settles: the catch block (lines
\* 42-45) logs and returns []
getSleepSessionsOutcome(item, readOk) ==
  LET body == getSleepSessionsBody(item, readOk)
  IN  IF body.threw THEN [settled |-> "fulfilled", value |-> <<>>]
      ELSE [settled |-> "fulfilled", value |-> body.value]

\* the list a caller of getSleepSessions receives
getSleepSessions(item, readOk) == getSleepSessionsOutcome(item, readOk).value

\* getDefaultSettings
DefaultSettings ==
  [autoDetectionEnabled |-> TRUE, notificationsEnabled |-> FALSE, batteryOptimized |-> TRUE,
   sleepGoalHours |-> 8, detectionSensitivity |-> "medium"]

\* { ...a, ...b }: the keys of both, b's value where both have one
spread(a, b) == [k \in DOMAIN a \cup DOMAIN b |-> IF k \in DOMAIN b THEN b[k] ELSE a[k]]

\* the try block of getSettings (lines 99-108); spreading null adds nothing
getSettingsBody(item, readOk) ==
  IF ~readOk THEN [threw |-> TRUE]
  ELSE IF item.kind = "missing" THEN [threw |-> FALSE, value |-> DefaultSettings]
  ELSE IF item.kind = "unparseable" THEN [threw |-> TRUE]
  ELSE IF item.kind = "jsonNull" THEN [threw |-> FALSE, value |-> DefaultSettings]
  ELSE [threw |-> FALSE, value |-> spread(DefaultSettings, item.settings)]

\* how the promise of getSettings settles: the catch block (lines 109-112)
\* logs and returns the defaults
getSettingsOutcome(item, readOk) ==
  LET body == getSettingsBody(item, readOk)
  IN  IF body.threw THEN [settled |-> "fulfilled", value |-> DefaultSettings]
      ELSE [settled |-> "fulfilled", value |-> body.value]

\* the upsert of saveSleepSession: replace at findIndex, else push
upsert(existingSessions, session) ==
  LET sessionIndex == FindIndex(existingSessions, session.id)
  IN  IF sessionIndex >= 1
      THEN [existingSessions EXCEPT ![sessionIndex] = session]
      ELSE Append(existingSessions, session)

(********************************** state **********************************)
VARIABLES
  platformOS,         \* Platform.OS
  bootClock,          \* the clock when the service was constructed
  clock,              \* the wall clock, what new Date() and Date.now() read
  isServiceActive,    \* _isServiceActive
  motionSubscription, \* TRUE iff the field holds a subscription
  detectionInterval,  \* TRUE iff the field holds a timer
  listeners,          \* motion listeners registered and not removed
  timers,             \* intervals set and not cleared
  lastActivity,
  motionBuffer,
  currentSession,
  sessionsItem,       \* AsyncStorage value under 'sleep_sessions'
  trackingItem,       \* AsyncStorage value under 'sleepTracking'
  ioQueue,            \* AsyncStorage operations issued and not completed, in order
  permPending,        \* startTracking calls waiting for requestPermissionsAsync
  uiSession,          \* the Dashboard's currentSession state
  nextId,             \* stands for Date.now() as a source of session ids
  lastOp,             \* history: the segment that ran last and how it ended
  freshStops,         \* history: stopTracking calls in flight that no startTracking call followed
  stoppedSince,       \* history: a stopTracking call returned and startTracking was not called
                      \* since that call was made
  events,             \* history: calls from outside so far
  ingested,           \* history: every sample the listener took in, in arrival order
  opened,             \* history: the ids of the sessions the detector has opened
  savedIds,           \* history: the ids of the sessions whose save has completed
  readFailed,         \* history: a read of the stored sessions by a save has failed
  settingsItem,       \* AsyncStorage value under 'sleep_settings'
  budget,             \* how many calls from outside the behaviour may make
  query,              \* the query a caller is making: the function and its arguments
  result              \* what the last query returned to its caller

vars == <<platformOS, bootClock, clock, isServiceActive, motionSubscription,
          detectionInterval, listeners, timers, lastActivity, motionBuffer,
          currentSession, sessionsItem, trackingItem, ioQueue, permPending,
          uiSession, nextId, lastOp, freshStops, stoppedSince, events, ingested,
          opened, savedIds, readFailed, settingsItem, budget, query, result>>

Platforms == {"ios", "web"}
PermissionStatuses == {"granted", "denied", "undetermined"}

\* no query is being made; no query has returned
NoQuery == [fn |-> "none"]
NoResult == [of |-> "none"]

\* the service, the store and the Dashboard right after construction
InitService ==
  /\ platformOS \in Platforms
  /\ clock \in StartClocks
  /\ bootClock = clock
  /\ isServiceActive = FALSE
  /\ motionSubscription = FALSE
  /\ detectionInterval = FALSE
  /\ listeners = 0
  /\ timers = 0
  /\ lastActivity = clock
  /\ motionBuffer = <<>>
  /\ currentSession = NoSession
  /\ sessionsItem = Missing
  /\ trackingItem = "missing"
  /\ ioQueue = <<>>
  /\ permPending = 0
  /\ uiSession = NoSession
  /\ nextId = 1
  /\ lastOp = [op |-> "init", at |-> "done"]
  /\ freshStops = 0
  /\ stoppedSince = FALSE
  /\ events = 0
  /\ ingested = <<>>
  /\ opened = {}
  /\ savedIds = {}
  /\ readFailed = FALSE
  /\ settingsItem = Missing

Init ==
  /\ InitService
  /\ budget = MaxEvents
  /\ query = NoQuery
  /\ result = NoResult

\* room for one more AsyncStorage operation, counting the ones that calls
\* waiting for the permission request will issue
QueueRoom == Len(ioQueue) + permPending < MaxQueue
HandleRoom == timers + permPending < MaxHandles

isOpen(s) == s # NoSession /\ s.wakeTime = NoTime

(****************************** startTracking ******************************)
\* lines 42-53: the body after the permission check, up to the await of
\* AsyncStorage.setItem('sleepTracking', 'true')
StartBodyOn(queue) ==
  /\ isServiceActive' = TRUE
  /\ lastActivity' = clock
  /\ IF platformOS # "web"
     THEN /\ motionSubscription' = TRUE
          /\ listeners' = listeners + 1
     ELSE UNCHANGED <<motionSubscription, listeners>>
  /\ detectionInterval' = TRUE
  /\ timers' = timers + 1
  /\ ioQueue' = Append(queue, [op |-> "setTracking", value |-> "true"])

\* the body run by a call that leaves the queue of operations as it is
StartBody == StartBodyOn(ioQueue)

\* a call of startTracking() whose first line finds the flag alreadyActive:
\* it returns at once when active, else runs up to its first await
StartTrackingFrom(alreadyActive) ==
  /\ events < budget
  /\ stoppedSince' = FALSE
  /\ freshStops' = 0
  /\ IF alreadyActive
     THEN /\ lastOp' = [op |-> "startTracking", at |-> "alreadyActive"]
          /\ UNCHANGED <<platformOS, bootClock, clock, isServiceActive, motionSubscription,
                         detectionInterval, listeners, timers, lastActivity, motionBuffer,
                         currentSession, sessionsItem, trackingItem, ioQueue, permPending,
                         uiSession, nextId>>
     ELSE /\ QueueRoom
          /\ HandleRoom
          /\ IF platformOS # "web"
             THEN /\ permPending' = permPending + 1
                  /\ lastOp' = [op |-> "startTracking", at |-> "awaitPermission"]
                  /\ UNCHANGED <<isServiceActive, lastActivity, motionSubscription, listeners,
                                 detectionInterval, timers, ioQueue>>
             ELSE /\ StartBody
                  /\ lastOp' = [op |-> "startTracking", at |-> "awaitSetItem"]
                  /\ UNCHANGED permPending
          /\ UNCHANGED <<platformOS, bootClock, clock, motionBuffer, currentSession,
                         sessionsItem, trackingItem, uiSession, nextId>>
  /\ events' = events + 1
  /\ UNCHANGED <<ingested, opened, savedIds, readFailed, settingsItem,
                 budget, query, result>>

\* startTracking with the early return missing
StartTrackingCall_NoEarlyReturn == StartTrackingFrom(FALSE)

\* a call of startTracking()
StartTrackingCall == StartTrackingFrom(isServiceActive)

\* requestPermissionsAsync settles for one waiting call; a rejection of the
\* request takes the same catch as a status other than 'granted'
PermissionResultWhen(granted) ==
  /\ permPending > 0
  /\ permPending' = permPending - 1
  /\ IF granted
     THEN /\ StartBody
          /\ lastOp' = [op |-> "startTracking", at |-> "awaitSetItem"]
     ELSE /\ isServiceActive' = FALSE
          /\ lastOp' = [op |-> "startTracking", at |-> "caughtPermission"]
          /\ UNCHANGED <<lastActivity, motionSubscription, listeners, detectionInterval,
                         timers, ioQueue>>
  /\ UNCHANGED <<platformOS, bootClock, clock, motionBuffer, currentSession, sessionsItem,
                 trackingItem, uiSession, nextId, freshStops, stoppedSince>>
  /\ UNCHANGED <<events, ingested, opened, savedIds, readFailed, settingsItem,
                 budget, query, result>>

\* the permission check passing every status but 'denied'
PermissionResult_AllowsUndetermined(status) == PermissionResultWhen(status # "denied")

\* lines 36-39: only the status 'granted' passes
PermissionResult(status) == PermissionResultWhen(status = "granted")

(******************************* stopTracking ******************************)
\* a call of stopTracking(), up to the await of setItem('sleepTracking', 'false'),
\* leaving sessionAfter as the current session
StopTrackingLeaving(sessionAfter) ==
  /\ events < budget
  /\ QueueRoom
  /\ currentSession' = sessionAfter
  /\ isServiceActive' = FALSE
  /\ IF motionSubscription
     THEN /\ listeners' = listeners - 1
          /\ motionSubscription' = FALSE
     ELSE UNCHANGED <<listeners, motionSubscription>>
  /\ IF detectionInterval
     THEN /\ timers' = timers - 1
          /\ detectionInterval' = FALSE
     ELSE UNCHANGED <<timers, detectionInterval>>
  /\ ioQueue' = Append(ioQueue, [op |-> "setTracking", value |-> "false"])
  /\ lastOp' = [op |-> "stopTracking", at |-> "awaitSetItem"]
  /\ UNCHANGED <<platformOS, bootClock, clock, lastActivity, motionBuffer,
                 sessionsItem, trackingItem, permPending, uiSession, nextId, stoppedSince>>
  /\ freshStops' = freshStops + 1
  /\ events' = events + 1
  /\ UNCHANGED <<ingested, opened, savedIds, readFailed, settingsItem,
                 budget, query, result>>

\* stopTracking discarding the open session
StopTrackingCall_DropsSession == StopTrackingLeaving(NoSession)

\* stopTracking does not touch currentSession
StopTrackingCall == StopTrackingLeaving(currentSession)

\* the stopTracking calls waiting for their setItem; the queue is served in
\* order, so the first of them is followed by a startTracking call unless
\* none of them is
StopsInFlight ==
  Cardinality({i \in DOMAIN ioQueue : ioQueue[i].op = "setTracking" /\ ioQueue[i].value = "false"})

\* AsyncStorage.setItem('sleepTracking', value) completes.  startTracking
\* logs on success and its catch clears the flag on failure; stopTracking
\* returns on success and rejects on failure.
SetTrackingDone(ok) ==
  /\ ioQueue # <<>>
  /\ Head(ioQueue).op = "setTracking"
  /\ ioQueue' = Tail(ioQueue)
  /\ trackingItem' = IF ok THEN Head(ioQueue).value ELSE trackingItem
  /\ IF Head(ioQueue).value = "true"
     THEN /\ isServiceActive' = IF ok THEN isServiceActive ELSE FALSE
          /\ lastOp' = [op |-> "startTracking", at |-> IF ok THEN "resolved" ELSE "caughtSetItem"]
          /\ UNCHANGED <<freshStops, stoppedSince>>
     ELSE /\ UNCHANGED isServiceActive
          /\ lastOp' = [op |-> "stopTracking", at |-> IF ok THEN "resolved" ELSE "rejected"]
          /\ LET fresh == freshStops = StopsInFlight
             IN  /\ freshStops' = IF fresh THEN freshStops - 1 ELSE freshStops
                 /\ stoppedSince' = (stoppedSince \/ (ok /\ fresh))
  /\ UNCHANGED <<platformOS, bootClock, clock, motionSubscription, detectionInterval,
                 listeners, timers, lastActivity, motionBuffer, currentSession, sessionsItem,
                 permPending, uiSession, nextId>>
  /\ UNCHANGED <<events, ingested, opened, savedIds, readFailed, settingsItem,
                 budget, query, result>>

(***************************** motion ingestion ****************************)
\* the buffer losing its newest entry when it is full
pushSample_DropsNewest(buf, motion) ==
  LET pushed == Append(buf, motion)
  IN  IF Len(pushed) > CAPACITY THEN SubSeq(pushed, 1, CAPACITY) ELSE pushed

\* lines 99-102: push, then shift when the length exceeds the capacity
pushSample(buf, motion) ==
  LET pushed == Append(buf, motion)
  IN  IF Len(pushed) > CAPACITY THEN Tail(pushed) ELSE pushed

\* the DeviceMotion listener of startMotionMonitoring, for one event; a
\* listener that finds the service inactive returns at once
MotionEvent(magnitude) ==
  /\ events < budget
  /\ listeners > 0
  /\ isServiceActive
  /\ LET now == clock
         motion == [timestamp |-> now, magnitude |-> magnitude]
     IN  /\ motionBuffer' = pushSample(motionBuffer, motion)
         /\ ingested' = Append(ingested, motion)
         /\ lastActivity' = IF hasSignificantMotion(motion) THEN now ELSE lastActivity
  /\ lastOp' = [op |-> "motionListener", at |-> "done"]
  /\ UNCHANGED <<platformOS, bootClock, clock, isServiceActive, motionSubscription,
                 detectionInterval, listeners, timers, currentSession, sessionsItem,
                 trackingItem, ioQueue, permPending, uiSession, nextId, freshStops, stoppedSince>>
  /\ events' = events + 1
  /\ UNCHANGED <<opened, savedIds, readFailed, settingsItem,
                 budget, query, result>>

(***************************** evaluation tick *****************************)
\* startSleepSession taking the time of the tick as the bedtime
startSleepSession_AtTickTime(confidence) ==
  [id |-> nextId, bedtime |-> clock, wakeTime |-> NoTime,
   duration |-> 0, quality |-> 0, isManual |-> FALSE, confidence |-> confidence]

\* startSleepSession: the session it assigns to currentSession
startSleepSession(confidence) ==
  [id |-> nextId, bedtime |-> lastActivity + INACTIVITY_THRESHOLD, wakeTime |-> NoTime,
   duration |-> 0, quality |-> 0, isManual |-> FALSE, confidence |-> confidence]

\* endSleepSession measuring the duration from lastActivity
endSleepSession_FromLastActivity(session) ==
  LET wakeTime == clock
      duration == wakeTime - lastActivity
  IN  [session EXCEPT !.wakeTime = wakeTime, !.duration = duration,
                      !.quality = calculateSleepQuality(duration, motionBuffer)]

\* endSleepSession handing over the session without a wakeTime
endSleepSession_StillOpen(session) ==
  LET duration == clock - session.bedtime
  IN  [session EXCEPT !.duration = duration,
                      !.quality = calculateSleepQuality(duration, motionBuffer)]

\* endSleepSession: the completedSession it hands to saveSleepSession
endSleepSession(session) ==
  LET wakeTime == clock
      duration == wakeTime - session.bedtime
  IN  [session EXCEPT !.wakeTime = wakeTime, !.duration = duration,
                      !.quality = calculateSleepQuality(duration, motionBuffer)]

\* the start condition with >= in place of >
ShouldStart_AtLeast(session, sleepProbability) ==
  session = NoSession /\ sleepProbability >= SLEEP_CONFIDENCE_THRESHOLD * WindowLcm

\* the end condition comparing with the start threshold
ShouldEnd_BelowStartThreshold(session, sleepProbability) ==
  session # NoSession /\ sleepProbability < SLEEP_CONFIDENCE_THRESHOLD * WindowLcm

\* the start threshold below the end threshold
ShouldStart_BelowWakeThreshold(session, sleepProbability) ==
  session = NoSession /\ sleepProbability > (WAKE_THRESHOLD - 10) * WindowLcm

\* the end condition with a threshold above the inactivity weight
ShouldEnd_BelowHalf(session, sleepProbability) ==
  session # NoSession /\ sleepProbability < 50 * WindowLcm

\* the start condition and the end condition of performSleepDetection
ShouldStart(session, sleepProbability) ==
  session = NoSession /\ sleepProbability > SLEEP_CONFIDENCE_THRESHOLD * WindowLcm
ShouldEnd(session, sleepProbability) ==
  session # NoSession /\ sleepProbability < WAKE_THRESHOLD * WindowLcm

\* the probability computed from the inactivity since construction, not
\* since the lastActivity the bedtime is taken from
SleepProbabilityNow_SinceBoot == calculateSleepProbability(clock - bootClock, clock, motionBuffer)

\* the probability performSleepDetection (and getDetectionState) computes now
SleepProbabilityNow == calculateSleepProbability(clock - lastActivity, clock, motionBuffer)

\* One firing of the interval: performSleepDetection up to the await inside
\* saveSleepSession.  startSleepSession has no await of its own, so the
\* session is assigned during the call; the await on its promise resumes in
\* the same turn of the event loop, before any timer, sensor or storage
\* callback, and is part of this segment.
PerformSleepDetection ==
  /\ timers > 0
  /\ LET sleepProbability == SleepProbabilityNow
         starts == ShouldStart(currentSession, sleepProbability)
         afterStart == IF starts THEN startSleepSession(sleepProbability) ELSE currentSession
         ends == ShouldEnd(afterStart, sleepProbability)
     IN  /\ starts => nextId <= MaxIds
         /\ ends => QueueRoom
         /\ nextId' = IF starts THEN nextId + 1 ELSE nextId
         /\ currentSession' = afterStart
         /\ opened' = IF starts THEN opened \cup {nextId} ELSE opened
         /\ ioQueue' = IF ends
                       THEN Append(ioQueue, [op |-> "getSessions", owner |-> "detector",
                                             session |-> endSleepSession(afterStart)])
                       ELSE ioQueue
         /\ lastOp' = [op |-> "performSleepDetection",
                       at |-> IF ends THEN "awaitSave" ELSE IF starts THEN "started" ELSE "none"]
  /\ UNCHANGED <<platformOS, bootClock, clock, isServiceActive, motionSubscription,
                 detectionInterval, listeners, timers, lastActivity, motionBuffer,
                 sessionsItem, trackingItem, permPending, uiSession, freshStops, stoppedSince>>
  /\ UNCHANGED <<events, ingested, savedIds, readFailed, settingsItem,
                 budget, query, result>>

(****************************** session store ******************************)
\* saveSleepSession resumes after getSleepSessions: upsert, then the await of
\* AsyncStorage.setItem(SLEEP_SESSIONS_KEY, JSON.stringify(existingSessions))
GetSessionsDone(ok) ==
  /\ ioQueue # <<>>
  /\ Head(ioQueue).op = "getSessions"
  /\ LET call == Head(ioQueue)
         existingSessions == getSleepSessions(sessionsItem, ok)
     IN  ioQueue' = Append(Tail(ioQueue),
                           [op |-> "setSessions", owner |-> call.owner, session |-> call.session,
                            value |-> stringify(upsert(existingSessions, call.session))])
  /\ lastOp' = [op |-> "saveSleepSession", at |-> "awaitSetItem"]
  /\ UNCHANGED <<platformOS, bootClock, clock, isServiceActive, motionSubscription,
                 detectionInterval, listeners, timers, lastActivity, motionBuffer,
                 currentSession, sessionsItem, trackingItem, permPending, uiSession, nextId,
                 freshStops, stoppedSince>>
  /\ readFailed' = (readFailed \/ ~ok)
  /\ UNCHANGED <<events, ingested, opened, savedIds, settingsItem,
                 budget, query, result>>

\* endSleepSession after its await keeping the session
sessionAfterSave_Kept(ok, owner) == currentSession

\* line 224: endSleepSession resumes after a successful save and clears
\* currentSession; a rejected save skips the assignment
sessionAfterSave(ok, owner) ==
  IF ok /\ owner = "detector" THEN NoSession ELSE currentSession

\* the setItem of saveSleepSession completes.  On success the caller resumes:
\* endSleepSession clears currentSession, the Dashboard sets its state.  On
\* failure saveSleepSession rethrows and the caller's promise rejects.
SetSessionsDone(ok) ==
  /\ ioQueue # <<>>
  /\ Head(ioQueue).op = "setSessions"
  /\ ioQueue' = Tail(ioQueue)
  /\ LET call == Head(ioQueue)
     IN  /\ sessionsItem' = IF ok THEN call.value ELSE sessionsItem
         /\ currentSession' = sessionAfterSave(ok, call.owner)
         /\ uiSession' = IF ok /\ call.owner = "dashboard" THEN call.session ELSE uiSession
         /\ lastOp' = [op |-> IF call.owner = "detector" THEN "endSleepSession"
                                                         ELSE "handleManualSleepToggle",
                       at |-> IF ok THEN "resolved" ELSE "rejected"]
  /\ UNCHANGED <<platformOS, bootClock, clock, isServiceActive, motionSubscription,
                 detectionInterval, listeners, timers, lastActivity, motionBuffer,
                 trackingItem, permPending, nextId, freshStops, stoppedSince>>
  /\ savedIds' = IF ok THEN savedIds \cup {Head(ioQueue).session.id} ELSE savedIds
  /\ UNCHANGED <<events, ingested, opened, readFailed, settingsItem,
                 budget, query, result>>

(****************************** manual toggle ******************************)
\* handleManualSleepToggle up to the await of saveSleepSession
HandleManualSleepToggle ==
  /\ events < budget
  /\ QueueRoom
  /\ IF isOpen(uiSession)
     THEN /\ ioQueue' = Append(ioQueue,
                 [op |-> "getSessions", owner |-> "dashboard",
                  session |-> [uiSession EXCEPT !.wakeTime = clock,
                                                !.duration = clock - uiSession.bedtime]])
          /\ UNCHANGED nextId
     ELSE /\ nextId <= MaxIds
          /\ ioQueue' = Append(ioQueue,
                 [op |-> "getSessions", owner |-> "dashboard",
                  session |-> [id |-> nextId, bedtime |-> clock, wakeTime |-> NoTime,
                               duration |-> 0, quality |-> 0, isManual |-> TRUE,
                               confidence |-> ProbScale]])
          /\ nextId' = nextId + 1
  /\ lastOp' = [op |-> "handleManualSleepToggle", at |-> "awaitSave"]
  /\ UNCHANGED <<platformOS, bootClock, clock, isServiceActive, motionSubscription,
                 detectionInterval, listeners, timers, lastActivity, motionBuffer,
                 currentSession, sessionsItem, trackingItem, permPending, uiSession,
                 freshStops, stoppedSince>>
  /\ events' = events + 1
  /\ UNCHANGED <<ingested, opened, savedIds, readFailed, settingsItem,
                 budget, query, result>>

(********************************** clock **********************************)
\* three minutes pass
Advance ==
  /\ clock - bootClock < MaxClockSteps
  /\ clock' = clock + 1
  /\ lastOp' = [op |-> "advance", at |-> "done"]
  /\ UNCHANGED <<platformOS, bootClock, isServiceActive, motionSubscription,
                 detectionInterval, listeners, timers, lastActivity, motionBuffer,
                 currentSession, sessionsItem, trackingItem, ioQueue, permPending,
                 uiSession, nextId, freshStops, stoppedSince>>
  /\ UNCHANGED <<events, ingested, opened, savedIds, readFailed, settingsItem,
                 budget, query, result>>

Next ==
  \/ StartTrackingCall
  \/ \E status \in PermissionStatuses : PermissionResult(status)
  \/ StopTrackingCall
  \/ \E ok \in BOOLEAN : SetTrackingDone(ok)
  \/ \E magnitude \in Magnitudes : MotionEvent(magnitude)
  \/ PerformSleepDetection
  \/ \E ok \in BOOLEAN : GetSessionsDone(ok)
  \/ \E ok \in BOOLEAN : SetSessionsDone(ok)
  \/ HandleManualSleepToggle
  \/ Advance

Spec == Init /\ [][Next]_vars

(******************************* the snapshot ******************************)
\* getDetectionState: the snapshot it returns
getDetectionState ==
  [isTracking |-> isServiceActive,
   currentSession |-> currentSession,
   lastActivity |-> lastActivity,
   inactivityDuration |-> clock - lastActivity,
   sleepProbability |-> SleepProbabilityNow]

\* a call of getDetectionState() that leaves lastActivityAfter in lastActivity
GetDetectionStateLeaving(lastActivityAfter) ==
  /\ events < budget
  /\ result' = [of |-> "getDetectionState", value |-> getDetectionState]
  /\ lastActivity' = lastActivityAfter
  /\ lastOp' = [op |-> "getDetectionState", at |-> "done"]
  /\ UNCHANGED <<platformOS, bootClock, clock, isServiceActive, motionSubscription,
                 detectionInterval, listeners, timers, motionBuffer, currentSession,
                 sessionsItem, trackingItem, ioQueue, permPending, uiSession, nextId,
                 freshStops, stoppedSince>>
  /\ events' = events + 1
  /\ UNCHANGED <<ingested, opened, savedIds, readFailed, settingsItem,
                 budget, query>>

\* getDetectionState counting as activity
GetDetectionStateCall_Touches == GetDetectionStateLeaving(clock)

\* lines 262-274: the call reads and computes, and assigns nothing
GetDetectionStateCall == GetDetectionStateLeaving(lastActivity)

\* the service with a presentation layer that polls the snapshot
NextPolled ==
  \/ StartTrackingCall
  \/ \E status \in PermissionStatuses : PermissionResult(status)
  \/ StopTrackingCall
  \/ \E ok \in BOOLEAN : SetTrackingDone(ok)
  \/ \E magnitude \in Magnitudes : MotionEvent(magnitude)
  \/ PerformSleepDetection
  \/ \E ok \in BOOLEAN : GetSessionsDone(ok)
  \/ \E ok \in BOOLEAN : SetSessionsDone(ok)
  \/ GetDetectionStateCall
  \/ Advance

SpecPolled == Init /\ [][NextPolled]_vars

(*************************** the buffer on its own **************************)
\* enough calls for startTracking and for two samples beyond the capacity
BufferBudget == CAPACITY + 3

InitBuffer ==
  /\ InitService
  /\ budget = BufferBudget
  /\ query = NoQuery
  /\ result = NoResult

\* tracking is started and samples arrive, all within one unit of time; the
\* interval never fires
NextBuffer ==
  \/ StartTrackingCall
  \/ \E status \in PermissionStatuses : PermissionResult(status)
  \/ \E ok \in BOOLEAN : SetTrackingDone(ok)
  \/ \E magnitude \in Magnitudes : MotionEvent(magnitude)

SpecBuffer == InitBuffer /\ [][NextBuffer]_vars

(************************ the functions on their own ***********************)
\* the inputs the functions are applied to
QueryDurations ==
  {-2 * INACTIVITY_THRESHOLD, -1, 0, 1, INACTIVITY_THRESHOLD - 1, INACTIVITY_THRESHOLD,
   INACTIVITY_THRESHOLD + 1, 3 * INACTIVITY_THRESHOLD}
QueryTimes == {h * UnitsPerHour + m : h \in 0..23, m \in {0, UnitsPerHour - 1}}
QueryBuffers ==
  UNION {[1..k -> {[timestamp |-> 0, magnitude |-> m] : m \in Magnitudes}] : k \in 0..CAPACITY}
QuerySleepDurations ==
  {h * UnitsPerHour + e : h \in 4..12, e \in {-1, 0, 1}} \cup {-1, 0}
QuerySessions ==
  {[id |-> i, bedtime |-> 6 * UnitsPerHour, wakeTime |-> w, duration |-> 0, quality |-> 0,
    isManual |-> FALSE, confidence |-> ProbScale] : i \in 1..2, w \in {NoTime, 7 * UnitsPerHour}}
QuerySessionItems ==
  {Missing, Unparseable, JsonNull, stringify(<<>>)}
    \cup {stringify(<<a>>) : a \in QuerySessions}
    \cup {stringify(<<a, b>>) : a \in QuerySessions, b \in QuerySessions}
QuerySettingsItems ==
  {Missing, Unparseable, JsonNull,
   [kind |-> "json", settings |-> [sleepGoalHours |-> 7]],
   [kind |-> "json", settings |-> [notificationsEnabled |-> TRUE, detectionSensitivity |-> "high"]]}

Queries ==
  [fn : {"calculateSleepProbability"}, inactivityDuration : QueryDurations,
   currentTime : QueryTimes, buffer : QueryBuffers]
    \cup [fn : {"calculateSleepQuality"}, duration : QuerySleepDurations, buffer : QueryBuffers]
    \cup [fn : {"getRecentMotionLevel"}, buffer : QueryBuffers]
    \cup [fn : {"getSleepSessions"}, item : QuerySessionItems, readOk : BOOLEAN]
    \cup [fn : {"getSettings"}, item : QuerySettingsItems, readOk : BOOLEAN]

InitFunctions ==
  /\ InitService
  /\ budget = 0
  /\ query \in Queries
  /\ result = NoResult

\* the query is answered with value; nothing else changes
Answer(value) ==
  /\ result = NoResult
  /\ result' = [of |-> query.fn, value |-> value]
  /\ UNCHANGED <<platformOS, bootClock, clock, isServiceActive, motionSubscription,
                 detectionInterval, listeners, timers, lastActivity, motionBuffer,
                 currentSession, sessionsItem, trackingItem, ioQueue, permPending,
                 uiSession, nextId, lastOp, freshStops, stoppedSince, events, ingested,
                 opened, savedIds, readFailed, settingsItem,
                 budget, query>>

CalculateSleepProbabilityCall ==
  /\ query.fn = "calculateSleepProbability"
  /\ Answer(calculateSleepProbability(query.inactivityDuration, query.currentTime, query.buffer))

CalculateSleepQualityCall ==
  /\ query.fn = "calculateSleepQuality"
  /\ Answer(calculateSleepQuality(query.duration, query.buffer))

GetRecentMotionLevelCall ==
  /\ query.fn = "getRecentMotionLevel"
  /\ Answer(getRecentMotionLevel(query.buffer))

GetSleepSessionsCall ==
  /\ query.fn = "getSleepSessions"
  /\ Answer(getSleepSessionsOutcome(query.item, query.readOk))

GetSettingsCall ==
  /\ query.fn = "getSettings"
  /\ Answer(getSettingsOutcome(query.item, query.readOk))

NextFunctions ==
  \/ CalculateSleepProbabilityCall
  \/ CalculateSleepQualityCall
  \/ GetRecentMotionLevelCall
  \/ GetSleepSessionsCall
  \/ GetSettingsCall

SpecFunctions == InitFunctions /\ [][NextFunctions]_vars

(********************************* the app *********************************)
\* The service as the screens drive it.  The Dashboard (index.tsx) imports
\* the default export, the instance; the Settings screen (settings.tsx)
\* imports the named export, the class, whose only static member is
\* getInstance.  setIsTracking and setAutoDetectionEnabled set display state
\* that no handler reads; it is not part of the state here.

\* launches and toggles of the setting in one behaviour
AppBudget == MaxEvents + 1

\* no operation of the app is waiting for the store or for the permission
Idle == ioQueue = <<>> /\ permPending = 0

\* The process starts, for the first time or again after it was ended while
\* idle: the module constructs the service (lines 10-15), the store keeps
\* what it held, and the Dashboard mounts and runs initializeSleepTracking
\* up to the await of isTracking(), i.e. of getItem('sleepTracking').
Launch ==
  /\ events < budget
  /\ Idle
  /\ bootClock' = clock
  /\ isServiceActive' = FALSE
  /\ motionSubscription' = FALSE
  /\ detectionInterval' = FALSE
  /\ listeners' = 0
  /\ timers' = 0
  /\ lastActivity' = clock
  /\ motionBuffer' = <<>>
  /\ currentSession' = NoSession
  /\ uiSession' = NoSession
  /\ freshStops' = 0
  /\ stoppedSince' = FALSE
  /\ ioQueue' = <<[op |-> "getTracking"]>>
  /\ lastOp' = [op |-> "initializeSleepTracking", at |-> "awaitIsTracking"]
  /\ events' = events + 1
  /\ UNCHANGED <<platformOS, clock, sessionsItem, trackingItem, permPending, nextId,
                 ingested, opened, savedIds, readFailed, settingsItem, budget, query, result>>

\* isTracking() settles and initializeSleepTracking resumes (index.tsx lines
\* 47-53): with a status other than 'true' it calls startTracking(), which
\* runs up to its first await; a rejected getItem rejects isTracking() and
\* initializeSleepTracking with it.
IsTrackingDone(ok) ==
  /\ ioQueue # <<>>
  /\ Head(ioQueue).op = "getTracking"
  /\ LET trackingStatus == trackingItem = "true"
     IN  IF ~ok
         THEN /\ lastOp' = [op |-> "initializeSleepTracking", at |-> "rejected"]
              /\ ioQueue' = Tail(ioQueue)
              /\ UNCHANGED <<isServiceActive, lastActivity, motionSubscription, listeners,
                             detectionInterval, timers, permPending>>
         ELSE IF trackingStatus
         THEN /\ lastOp' = [op |-> "initializeSleepTracking", at |-> "alreadyTracking"]
              /\ ioQueue' = Tail(ioQueue)
              /\ UNCHANGED <<isServiceActive, lastActivity, motionSubscription, listeners,
                             detectionInterval, timers, permPending>>
         ELSE IF isServiceActive
         THEN /\ lastOp' = [op |-> "startTracking", at |-> "alreadyActive"]
              /\ ioQueue' = Tail(ioQueue)
              /\ UNCHANGED <<isServiceActive, lastActivity, motionSubscription, listeners,
                             detectionInterval, timers, permPending>>
         ELSE IF platformOS # "web"
         THEN /\ permPending' = permPending + 1
              /\ lastOp' = [op |-> "startTracking", at |-> "awaitPermission"]
              /\ ioQueue' = Tail(ioQueue)
              /\ UNCHANGED <<isServiceActive, lastActivity, motionSubscription, listeners,
                             detectionInterval, timers>>
         ELSE /\ StartBodyOn(Tail(ioQueue))
              /\ lastOp' = [op |-> "startTracking", at |-> "awaitSetItem"]
              /\ UNCHANGED permPending
  /\ UNCHANGED <<platformOS, bootClock, clock, motionBuffer, currentSession, sessionsItem,
                 trackingItem, uiSession, nextId, freshStops, stoppedSince>>
  /\ UNCHANGED <<events, ingested, opened, savedIds, readFailed, settingsItem,
                 budget, query, result>>

\* handleAutoDetectionToggle(value) up to the await inside updateSettings,
\* the getItem of getSettings (settings.tsx lines 42-44, storage.ts 115-117)
HandleAutoDetectionToggle(value) ==
  /\ events < budget
  /\ QueueRoom
  /\ ioQueue' = Append(ioQueue, [op |-> "getSettings",
                                 newSettings |-> [autoDetectionEnabled |-> value]])
  /\ lastOp' = [op |-> "handleAutoDetectionToggle", at |-> "awaitUpdateSettings"]
  /\ events' = events + 1
  /\ UNCHANGED <<platformOS, bootClock, clock, isServiceActive, motionSubscription,
                 detectionInterval, listeners, timers, lastActivity, motionBuffer,
                 currentSession, sessionsItem, trackingItem, permPending, uiSession, nextId,
                 freshStops, stoppedSince>>
  /\ UNCHANGED <<ingested, opened, savedIds, readFailed, settingsItem, budget, query, result>>

\* JSON.stringify of a settings object
stringifySettings(settings) == [kind |-> "json", settings |-> settings]

\* updateSettings resumes after getSettings (storage.ts lines 117-123):
\* the new settings spread over the current ones, then the await of setItem
GetSettingsDone(ok) ==
  /\ ioQueue # <<>>
  /\ Head(ioQueue).op = "getSettings"
  /\ LET currentSettings == getSettingsOutcome(settingsItem, ok).value
         updatedSettings == spread(currentSettings, Head(ioQueue).newSettings)
     IN  ioQueue' = Append(Tail(ioQueue),
                           [op |-> "setSettings", newSettings |-> Head(ioQueue).newSettings,
                            value |-> stringifySettings(updatedSettings)])
  /\ lastOp' = [op |-> "updateSettings", at |-> "awaitSetItem"]
  /\ UNCHANGED <<platformOS, bootClock, clock, isServiceActive, motionSubscription,
                 detectionInterval, listeners, timers, lastActivity, motionBuffer,
                 currentSession, sessionsItem, trackingItem, permPending, uiSession, nextId,
                 freshStops, stoppedSince>>
  /\ UNCHANGED <<events, ingested, opened, savedIds, readFailed, settingsItem,
                 budget, query, result>>

\* The setItem of updateSettings completes.  On failure updateSettings
\* rethrows and the handler's promise rejects.  On success the handler goes
\* on to SleepDetectionService.startTracking() or .stopTracking() (settings.tsx
\* lines 46-50) on the class it imported: the class has no such static
\* member, the call throws a TypeError and the handler's promise rejects;
\* the instance is not touched.
SetSettingsDone(ok) ==
  /\ ioQueue # <<>>
  /\ Head(ioQueue).op = "setSettings"
  /\ ioQueue' = Tail(ioQueue)
  /\ settingsItem' = IF ok THEN Head(ioQueue).value ELSE settingsItem
  /\ lastOp' = [op |-> "handleAutoDetectionToggle",
                at |-> IF ok THEN "typeError" ELSE "rejected"]
  /\ UNCHANGED <<platformOS, bootClock, clock, isServiceActive, motionSubscription,
                 detectionInterval, listeners, timers, lastActivity, motionBuffer,
                 currentSession, sessionsItem, trackingItem, permPending, uiSession, nextId,
                 freshStops, stoppedSince>>
  /\ UNCHANGED <<events, ingested, opened, savedIds, readFailed, budget, query, result>>

InitApp ==
  /\ InitService
  /\ budget = AppBudget
  /\ query = NoQuery
  /\ result = NoResult

\* the screens never reach stopTracking; samples and the manual toggle are
\* left out
NextApp ==
  \/ Launch
  \/ \E ok \in BOOLEAN : IsTrackingDone(ok)
  \/ \E status \in PermissionStatuses : PermissionResult(status)
  \/ \E ok \in BOOLEAN : SetTrackingDone(ok)
  \/ \E value \in BOOLEAN : HandleAutoDetectionToggle(value)
  \/ \E ok \in BOOLEAN : GetSettingsDone(ok)
  \/ \E ok \in BOOLEAN : SetSettingsDone(ok)
  \/ PerformSleepDetection
  \/ Advance

SpecApp == InitApp /\ [][NextApp]_vars

(***************************** derived values ******************************)
\* what listing the store returns now
StoredSessions == getSleepSessions(sessionsItem, TRUE)

\* sessions with wakeTime = none: the detector's plus the store's
OpenSessionCount ==
  (IF isOpen(currentSession) THEN 1 ELSE 0)
    + Cardinality({i \in DOMAIN StoredSessions : StoredSessions[i].wakeTime = NoTime})

\* the finalized records the detector has handed to saveSleepSession and
\* that are still on their way to the store
DetectorSavesInFlight ==
  {ioQueue[i].session : i \in {k \in DOMAIN ioQueue : ioQueue[k].op \in {"getSessions", "setSessions"}
                                                      /\ ioQueue[k].owner = "detector"}}

\* the step is a firing of the evaluation tick
TickStep == lastOp'.op = "performSleepDetection"

(********************************** claims *********************************)
\* C1: in every reachable state at most one session with wakeTime = none
\* exists, counting the detector's current session and the open sessions in
\* the store.
C1_AtMostOneOpenSession == OpenSessionCount <= 1

\* C6: every finalized session the detector produces has duration >= 0, its
\* wakeTime is never earlier than its bedtime.
C6_DurationNonNegative ==
  /\ \A s \in DetectorSavesInFlight : s.duration >= 0
  /\ \A i \in DOMAIN StoredSessions :
       (~StoredSessions[i].isManual /\ StoredSessions[i].wakeTime # NoTime)
         => StoredSessions[i].duration >= 0

\* C7: once a stopTracking call has returned, and until startTracking is
\* called again, no evaluation timer and no motion subscription is live.
C7_NothingLiveAfterStop == stoppedSince => (timers = 0 /\ listeners = 0)

\* the record endSleepSession hands to the store at this tick, when it does
EnqueuedByTick == ioQueue'[Len(ioQueue')]
\* the tick hands exactly one record to the store
TickFinalizesOne ==
  /\ Len(ioQueue') = Len(ioQueue) + 1
  /\ SubSeq(ioQueue', 1, Len(ioQueue)) = ioQueue
  /\ EnqueuedByTick.op = "getSessions"
  /\ EnqueuedByTick.owner = "detector"
\* the tick hands nothing to the store
TickFinalizesNone == ioQueue' = ioQueue
\* the tick creates exactly one session
TickCreatesOne ==
  /\ currentSession = NoSession
  /\ isOpen(currentSession')
  /\ nextId' = nextId + 1
\* the tick creates no session
TickCreatesNone == nextId' = nextId

\* the three kinds of tick the sequence of C2 is made of, with the start
\* condition "probability >= startAt"
TickSequenceSteps(startAt) ==
  TickStep =>
    /\ (currentSession = NoSession /\ SleepProbabilityNow >= startAt)
         => (TickCreatesOne /\ TickFinalizesNone)
    /\ (currentSession # NoSession /\ SleepProbabilityNow >= WAKE_THRESHOLD * WindowLcm)
         => (TickCreatesNone /\ TickFinalizesNone /\ currentSession' = currentSession)
    /\ (currentSession # NoSession /\ SleepProbabilityNow < WAKE_THRESHOLD * WindowLcm)
         => /\ TickCreatesNone
            /\ TickFinalizesOne
            /\ EnqueuedByTick.session.id = currentSession.id
            /\ EnqueuedByTick.session.wakeTime = clock
            /\ EnqueuedByTick.session.duration = clock - currentSession.bedtime

C5_FinalizedRecordImmutable ==
  [][\A i \in DOMAIN StoredSessions : \A j \in DOMAIN StoredSessions' :
       (/\ ~StoredSessions[i].isManual
        /\ StoredSessions[i].wakeTime # NoTime
        /\ StoredSessions'[j].id = StoredSessions[i].id)
         => /\ StoredSessions'[j].wakeTime = StoredSessions[i].wakeTime
            /\ StoredSessions'[j].duration = StoredSessions[i].duration
            /\ StoredSessions'[j].quality = StoredSessions[i].quality]_vars

C10_DeniedLeavesInactive ==
  [][\A status \in PermissionStatuses \ {"granted"} :
       PermissionResult(status)
         => /\ isServiceActive' = FALSE
            /\ UNCHANGED <<motionSubscription, detectionInterval, listeners, timers,
                           trackingItem, ioQueue>>
            /\ lastOp'.at # "rejected"]_vars

\* C10 witness: a startTracking call has ended in its catch after the
\* permission was not granted; nothing is live and the persisted flag is not
\* 'true'.
C10_Witness ==
  /\ lastOp = [op |-> "startTracking", at |-> "caughtPermission"]
  /\ ~isServiceActive
  /\ listeners = 0
  /\ timers = 0
  /\ trackingItem # "true"

\* how the promise of a startTracking call has settled when the call ended
\* at `at`: the early return (line 31), the end of the try block (line 54)
\* and the catch block (lines 55-58) all return normally, so the promise is
\* fulfilled with undefined; nothing in the function rejects it
startTrackingOutcome(at) ==
  IF at \in {"alreadyActive", "resolved", "caughtPermission", "caughtSetItem"}
  THEN [settled |-> "fulfilled", value |-> "undefined"]
  ELSE [settled |-> "pending"]

\* C11: when the permission is not granted, what the caller of startTracking
\* receives differs from what it receives after a successful start.
C11_DenialSurfaced ==
  lastOp = [op |-> "startTracking", at |-> "caughtPermission"]
    => startTrackingOutcome(lastOp.at) # startTrackingOutcome("resolved")

\* C12: a tick never fires while the save of a session an earlier tick
\* finalized is still on its way to the store.
C12_TicksNeverOverlap ==
  [][TickStep => DetectorSavesInFlight = {}]_vars

\* C13: the detector gives up its current session only in the step in which
\* the save of that session's finalized record completes successfully, the
\* record then being in the store; and when such a save fails the detector
\* still holds that session as its current session.
C13_ReleasedOnlyAfterSave ==
  [][/\ (currentSession # NoSession /\ currentSession' # currentSession)
          => /\ lastOp' = [op |-> "endSleepSession", at |-> "resolved"]
             /\ Head(ioQueue).session.id = currentSession.id
             /\ \E i \in DOMAIN StoredSessions' : StoredSessions'[i] = Head(ioQueue).session
     /\ lastOp' = [op |-> "endSleepSession", at |-> "rejected"]
          => /\ currentSession' # NoSession
             /\ currentSession'.id = Head(ioQueue).session.id]_vars

\* C14: the motion buffer never holds more than its capacity, and it always
\* equals the most recent min(n, capacity) of the n samples taken in so far,
\* in arrival order: the tail grows, the head is evicted.
C14_BufferFifo ==
  /\ Len(motionBuffer) <= CAPACITY
  /\ Len(motionBuffer) = Min(Len(ingested), CAPACITY)
  /\ motionBuffer = SubSeq(ingested, Len(ingested) - Len(motionBuffer) + 1, Len(ingested))

\* C14 witness: two samples more than the capacity were taken in, the last
\* one unlike the evicted ones, and the buffer is full.
C14_Witness ==
  /\ Len(ingested) = CAPACITY + 2
  /\ Len(motionBuffer) = CAPACITY
  /\ ingested[1].magnitude # ingested[Len(ingested)].magnitude
  /\ motionBuffer[CAPACITY] = ingested[Len(ingested)]

\* C15: for every inactivity duration, hour of the day and buffer contents
\* the probability calculateSleepProbability returns lies in [0, 1].
C15_ProbabilityInUnitInterval ==
  result.of = "calculateSleepProbability" => (0 <= result.value /\ result.value <= ProbScale)

\* the claim's formula for the quality, from the duration and from the sum
\* and the number of the recent samples: the band, narrowest first;
\* motionQuality = round((1 - level) * 100) with level = min(mean /
\* threshold, 1), 0 for an empty buffer; round(clamp((base + motion) / 2))
C16_Band(duration) ==
  IF 7 * UnitsPerHour <= duration /\ duration <= 9 * UnitsPerHour THEN 90
  ELSE IF 6 * UnitsPerHour <= duration /\ duration <= 10 * UnitsPerHour THEN 75
  ELSE IF 5 * UnitsPerHour <= duration /\ duration <= 11 * UnitsPerHour THEN 60
  ELSE 40
C16_MotionQuality(buf) ==
  IF buf = <<>> THEN 100
  ELSE LET recent == SliceLast(buf, RECENT)
           full == Len(recent) * MOTION_THRESHOLD
       IN  Round(100 * (full - Min(SumMag(recent), full)), full)
C16_Expected(duration, buf) ==
  Round(Max(0, Min(200, C16_Band(duration) + C16_MotionQuality(buf))), 2)

\* C16: the quality calculateSleepQuality returns equals round(clamp((base +
\* motionQuality) / 2, 0, 100)) with the bands 7-9 h, 6-10 h, 5-11 h taken
\* inclusive and narrowest first; 8 h with a still buffer gives 95 and 4 h
\* with activity at the threshold or above gives 20.
C16_QualityFormula ==
  result.of = "calculateSleepQuality"
    => /\ result.value = C16_Expected(query.duration, query.buffer)
       /\ (query.duration = 8 * UnitsPerHour /\ SumMag(query.buffer) = 0) => result.value = 95
       /\ (query.duration = 4 * UnitsPerHour /\ query.buffer # <<>>
             /\ \A i \in DOMAIN query.buffer : query.buffer[i].magnitude >= MOTION_THRESHOLD)
            => result.value = 20

\* C16 witness: the quality of 8 hours of sleep with one still sample in
\* the buffer has been computed, and it is 95.
C16_Witness ==
  /\ result.of = "calculateSleepQuality"
  /\ result.value = 95
  /\ query.duration = 8 * UnitsPerHour
  /\ Len(query.buffer) = 1

\* C17: the inactivity factor is never more than 0.4, and from the
\* threshold on it is exactly 0.4: the probability returned is then 0.4 plus
\* the other three factors.
C17_InactivityFactorSaturates ==
  result.of = "calculateSleepProbability"
    => /\ inactivityFactor(query.inactivityDuration) <= 40 * WindowLcm
       /\ query.inactivityDuration >= INACTIVITY_THRESHOLD
            => /\ inactivityFactor(query.inactivityDuration) = 40 * WindowLcm
               /\ result.value =
                    Min(ProbScale,
                        40 * WindowLcm + timeOfDayFactor(Hour(query.currentTime)) * WindowLcm
                          + OneMinusMotionTimes(query.buffer, 20)
                          + chargingFactor(Hour(query.currentTime)) * WindowLcm)

\* C17 witness: the probability for three times the threshold, at noon with
\* activity above the threshold, has been computed, and it is exactly 0.4.
C17_Witness ==
  /\ result.of = "calculateSleepProbability"
  /\ result.value = 40 * WindowLcm
  /\ query.inactivityDuration = 3 * INACTIVITY_THRESHOLD
  /\ Hour(query.currentTime) = 12

C18_SnapshotIsPure ==
  [][lastOp'.op = "getDetectionState"
       => /\ UNCHANGED <<isServiceActive, currentSession, lastActivity, motionBuffer,
                         trackingItem, sessionsItem, ioQueue, motionSubscription,
                         detectionInterval, listeners, timers, permPending, clock>>
          /\ result'.value =
               [isTracking |-> isServiceActive,
                currentSession |-> currentSession,
                lastActivity |-> lastActivity,
                inactivityDuration |-> clock - lastActivity,
                sleepProbability |->
                  calculateSleepProbability(clock - lastActivity, clock, motionBuffer)]]_vars

\* C18 witness: the snapshot was taken as the last of the calls from outside,
\* while tracking is on, a session is open and time has passed since the
\* last activity.
C18_Witness ==
  /\ lastOp.op = "getDetectionState"
  /\ result.of = "getDetectionState"
  /\ isOpen(result.value.currentSession)
  /\ result.value.inactivityDuration > 0
  /\ result.value.isTracking
  /\ events = budget

\* C19: when a save completes, the store holds exactly one record with the
\* saved id, equal to the saved session; every record with another id that
\* the store held is still there unchanged; and a save of a session the
\* store already holds leaves the store as it was.
C19_SaveIsUpsert ==
  [][(lastOp'.op \in {"endSleepSession", "handleManualSleepToggle"} /\ lastOp'.at = "resolved")
       => LET saved == Head(ioQueue).session
          IN  /\ Cardinality({i \in DOMAIN StoredSessions' : StoredSessions'[i].id = saved.id}) = 1
              /\ \A i \in DOMAIN StoredSessions' :
                   StoredSessions'[i].id = saved.id => StoredSessions'[i] = saved
              /\ \A i \in DOMAIN StoredSessions :
                   StoredSessions[i].id # saved.id
                     => \E j \in DOMAIN StoredSessions' : StoredSessions'[j] = StoredSessions[i]
              /\ (\E i \in DOMAIN StoredSessions : StoredSessions[i] = saved)
                   => StoredSessions' = StoredSessions]_vars

\* C21: the session a tick creates has bedtime = lastActivity + the
\* inactivity threshold (not the time of the tick), the probability of that
\* tick as confidence, isManual = false, no wakeTime, duration 0 and quality
\* 0; the tick writes nothing to the store and hands nothing to it.
C21_CreatedSession ==
  [][(TickStep /\ currentSession = NoSession /\ currentSession' # NoSession)
       => /\ currentSession' =
               [id |-> nextId,
                bedtime |-> lastActivity + INACTIVITY_THRESHOLD,
                wakeTime |-> NoTime,
                duration |-> 0,
                quality |-> 0,
                isManual |-> FALSE,
                confidence |-> calculateSleepProbability(clock - lastActivity, clock, motionBuffer)]
          /\ sessionsItem' = sessionsItem
          /\ ioQueue' = ioQueue]_vars

\* C21 witness: a tick has just created a session whose bedtime is not the
\* time of the tick, and the store holds no record of it.
C21_Witness ==
  /\ lastOp = [op |-> "performSleepDetection", at |-> "started"]
  /\ isOpen(currentSession)
  /\ currentSession.bedtime # clock
  /\ \A i \in DOMAIN StoredSessions : StoredSessions[i].id # currentSession.id

\* C22: a tick with no session and a probability below the start threshold,
\* or with a session and a probability of at least 0.3, changes neither the
\* current session, the store, lastActivity nor the buffer, and hands
\* nothing to the store.
C22_NoTransitionNoChange ==
  [][(/\ TickStep
      /\ \/ currentSession = NoSession
             /\ SleepProbabilityNow < SLEEP_CONFIDENCE_THRESHOLD * WindowLcm
         \/ currentSession # NoSession
             /\ SleepProbabilityNow >= WAKE_THRESHOLD * WindowLcm)
       => UNCHANGED <<currentSession, sessionsItem, lastActivity, motionBuffer, ioQueue,
                      nextId>>]_vars

\* C22 witness: a tick has just run with a session open and a probability
\* between 0.3 and the start threshold, and the session is still open.
C22_Witness ==
  /\ lastOp = [op |-> "performSleepDetection", at |-> "none"]
  /\ isOpen(currentSession)
  /\ SleepProbabilityNow >= WAKE_THRESHOLD * WindowLcm
  /\ SleepProbabilityNow < SLEEP_CONFIDENCE_THRESHOLD * WindowLcm

\* C27: the listener appends the sample, stamped with the time of its
\* arrival, whatever its magnitude; it sets lastActivity to that time if the
\* sample's own magnitude is above the threshold and leaves lastActivity
\* alone otherwise, whatever the buffer holds.
C27_ActivityFromTheSample ==
  [][lastOp'.op = "motionListener"
       => LET sample == ingested'[Len(ingested')]
          IN  /\ ingested' = Append(ingested, sample)
              /\ motionBuffer'[Len(motionBuffer')] = sample
              /\ sample.timestamp = clock
              /\ sample.magnitude > MOTION_THRESHOLD => lastActivity' = clock
              /\ sample.magnitude <= MOTION_THRESHOLD => lastActivity' = lastActivity]_vars

\* C27 witness: a sample of exactly the threshold has just arrived after
\* samples above it, and lastActivity is still the earlier time.
C27_Witness ==
  /\ lastOp.op = "motionListener"
  /\ Len(motionBuffer) >= 2
  /\ motionBuffer[Len(motionBuffer)].magnitude = MOTION_THRESHOLD
  /\ motionBuffer[Len(motionBuffer) - 1].magnitude > MOTION_THRESHOLD
  /\ lastActivity < clock

\* how a firing of the interval ends when endSleepSession ended at `at`: the
\* callback of setInterval (lines 112-114) calls performSleepDetection and
\* drops the promise, so a rejection of saveSleepSession, thrown on through
\* endSleepSession and performSleepDetection, reaches no handler
performSleepDetectionOutcome(at) ==
  IF at = "rejected" THEN [settled |-> "rejected", handled |-> FALSE]
  ELSE [settled |-> "fulfilled", handled |-> TRUE]

\* C23: when the save of a finalized session fails, the tick does not end in
\* an error nobody handles.
C23_SaveFailureHandled ==
  lastOp.op = "endSleepSession" => performSleepDetectionOutcome(lastOp.at).handled

\* C24: at every tick, every sample in the buffer is at most 5 minutes old.
C24_BufferWithinRetention ==
  [][TickStep
       => \A i \in DOMAIN motionBuffer :
            (clock - motionBuffer[i].timestamp) * MinutesPerUnit <= RETENTION_MINUTES]_vars

\* C30: while the tracking flag is false no timer and no subscription is
\* live, and there is never more than one of each.
C30_HandlesFollowFlag ==
  /\ ~isServiceActive => (timers = 0 /\ listeners = 0)
  /\ timers <= 1
  /\ listeners <= 1

\* C29: every session the detector has opened is either its current session
\* or is in the store as a finalized record.
C29_NoSessionDiscarded ==
  \A id \in opened :
    \/ currentSession.id = id
    \/ \E i \in DOMAIN StoredSessions :
         StoredSessions[i].id = id /\ StoredSessions[i].wakeTime # NoTime


\* the claim's factors, in hundredths, by the hours they name, and its
\* probability: min(1, inactivity + time of day + (1 - level) * 0.2 +
\* charging)
C25_TimeOfDay(hour) ==
  IF hour \in (22..23) \cup (0..6) THEN 30
  ELSE IF hour \in 13..15 THEN 15
  ELSE 0
C25_Charging(hour) == IF hour \in {23} \cup (0..6) THEN 10 ELSE 0
C25_Expected(inactivityDuration, currentTime, buf) ==
  Min(ProbScale,
      inactivityFactor(inactivityDuration)
        + C25_TimeOfDay(Hour(currentTime)) * WindowLcm
        + (20 * WindowLcm - (20 * getRecentMotionLevel(buf)) \div MOTION_THRESHOLD)
        + C25_Charging(Hour(currentTime)) * WindowLcm)

\* C25: the probability calculateSleepProbability returns is min(1,
\* inactivity factor + time-of-day factor + motion factor + charging factor):
\* the time-of-day factor is 0.3 in the hours 22, 23 and 0 to 6, 0.15 in the
\* hours 13 to 15 and 0 otherwise, the motion factor is (1 - recent motion
\* level) * 0.2, the charging factor is 0.1 in the hours 23 and 0 to 6.
C25_ProbabilityFormula ==
  result.of = "calculateSleepProbability"
    => result.value = C25_Expected(query.inactivityDuration, query.currentTime, query.buffer)

\* C25 witness: the probability at 06:57, the last of the night hours, with
\* no inactivity and an empty buffer has been computed: 0.3 + 0.2 + 0.1.
C25_Witness ==
  /\ result.of = "calculateSleepProbability"
  /\ result.value = 60 * WindowLcm
  /\ query.currentTime = 6 * UnitsPerHour + UnitsPerHour - 1
  /\ query.inactivityDuration = 0
  /\ query.buffer = <<>>

\* the claim's level, in units of 1/(MOTION_THRESHOLD * WindowLcm): the mean
\* of the last min(RECENT, size) magnitudes over the threshold, at most 1
C26_Expected(buf) ==
  IF buf = <<>> THEN 0
  ELSE LET n == Min(RECENT, Len(buf))
           last == [i \in 1..n |-> buf[Len(buf) - n + i]]
       IN  Min((SumMag(last) * WindowLcm) \div n, MOTION_THRESHOLD * WindowLcm)

\* C26: getRecentMotionLevel returns 0 for an empty buffer and otherwise
\* min(1, mean magnitude of the last min(60, size) samples / threshold); the
\* result lies in [0, 1] and is the same for every buffer whose most recent
\* 60 samples are the same.
C26_RecentMotionLevel ==
  result.of = "getRecentMotionLevel"
    => /\ result.value = C26_Expected(query.buffer)
       /\ query.buffer = <<>> => result.value = 0
       /\ 0 <= result.value /\ result.value <= MOTION_THRESHOLD * WindowLcm
       /\ \A other \in QueryBuffers :
            SliceLast(other, RECENT) = SliceLast(query.buffer, RECENT)
              => getRecentMotionLevel(other) = result.value

\* C26 witness: the level of a buffer longer than the window has been
\* computed, the sample before the window being above the threshold and the
\* samples of the window still: the level is 0.
C26_Witness ==
  /\ result.of = "getRecentMotionLevel"
  /\ Len(query.buffer) = RECENT + 1
  /\ query.buffer[1].magnitude > MOTION_THRESHOLD
  /\ \A i \in 2..(RECENT + 1) : query.buffer[i].magnitude = 0
  /\ result.value = 0


\* C28: no sample is taken in during a tick's computation: the tick leaves
\* lastActivity and the buffer as they were, and the probability it decides
\* by, the confidence and the bedtime of a session it creates, and the
\* duration and the quality of a record it finalizes are all computed from
\* the lastActivity and the buffer it found.
C28_TickFromOneSnapshot ==
  [][TickStep
       => /\ UNCHANGED <<lastActivity, motionBuffer, ingested>>
          /\ LET inactivityDuration == clock - lastActivity
                 sleepProbability ==
                   calculateSleepProbability(inactivityDuration, clock, motionBuffer)
             IN  /\ (currentSession = NoSession /\ currentSession' # NoSession)
                      => /\ sleepProbability > SLEEP_CONFIDENCE_THRESHOLD * WindowLcm
                         /\ currentSession'.confidence = sleepProbability
                         /\ currentSession'.bedtime
                              = clock - inactivityDuration + INACTIVITY_THRESHOLD
                 /\ Len(ioQueue') > Len(ioQueue)
                      => /\ sleepProbability < WAKE_THRESHOLD * WindowLcm
                         /\ EnqueuedByTick.session.duration = clock - currentSession.bedtime
                         /\ EnqueuedByTick.session.quality
                              = calculateSleepQuality(clock - currentSession.bedtime,
                                                      motionBuffer)]_vars

\* C28 witness: samples have moved lastActivity and filled the buffer, and
\* a tick has just finalized the session with a quality that an empty buffer
\* would not have given.
C28_Witness ==
  /\ lastOp = [op |-> "performSleepDetection", at |-> "awaitSave"]
  /\ lastActivity # bootClock
  /\ motionBuffer # <<>>
  /\ \E s \in DetectorSavesInFlight :
       /\ s.wakeTime = clock
       /\ s.quality = calculateSleepQuality(s.duration, motionBuffer)
       /\ s.quality # calculateSleepQuality(s.duration, <<>>)


\* the hours of the night: 22, 23 and 0 to 6
NightHours == (22..23) \cup (0..6)

\* C33: at an hour outside 22, 23 and 0 to 6 the probability is at most
\* 0.75, whatever the inactivity and the motion level, and the start
\* condition of the tick is not met: the detector opens a session only at
\* an hour of the night.
C33_NoStartOutsideNight ==
  (result.of = "calculateSleepProbability" /\ Hour(query.currentTime) \notin NightHours)
    => /\ result.value <= 75 * WindowLcm
       /\ ~ShouldStart(NoSession, result.value)

\* C33 witness: the probability in the nap window with the inactivity
\* saturated and an empty buffer has been computed, and it is 0.75.
C33_Witness ==
  /\ result.of = "calculateSleepProbability"
  /\ Hour(query.currentTime) = 14
  /\ query.inactivityDuration = INACTIVITY_THRESHOLD
  /\ query.buffer = <<>>
  /\ result.value = 75 * WindowLcm

\* C34: at the hours 22, 23 and 0 to 6 the probability is at least 0.3,
\* whatever the inactivity and the motion level, so the end condition of
\* the tick is not met for any open session.
C34_NoEndAtNight ==
  (result.of = "calculateSleepProbability" /\ Hour(query.currentTime) \in NightHours)
    => /\ result.value >= WAKE_THRESHOLD * WindowLcm
       /\ \A session \in QuerySessions : ~ShouldEnd(session, result.value)

\* C35: a tick finalizes a session only when the inactivity duration is
\* below the inactivity threshold; a tick that finds an open session and an
\* inactivity of the threshold or more leaves the session open and hands
\* nothing to the store.
C35_EndOnlyAfterRecentActivity ==
  [][TickStep
       => /\ Len(ioQueue') > Len(ioQueue) => clock - lastActivity < INACTIVITY_THRESHOLD
          /\ (isOpen(currentSession) /\ clock - lastActivity >= INACTIVITY_THRESHOLD)
               => (currentSession' = currentSession /\ ioQueue' = ioQueue)]_vars

\* C35 witness: a tick outside the night has just run with a session open,
\* samples in the buffer and an inactivity of the threshold or more, and
\* the session is still open.
C35_Witness ==
  /\ lastOp = [op |-> "performSleepDetection", at |-> "none"]
  /\ isOpen(currentSession)
  /\ Hour(clock) \notin NightHours
  /\ motionBuffer # <<>>
  /\ clock - lastActivity >= INACTIVITY_THRESHOLD

\* C36: the probability of a tick never meets the start condition and the
\* end condition together, and no tick both creates a session and hands a
\* record to the store: the session a tick opens is open when the tick is
\* over.
C36_NoOpenAndEndInOneTick ==
  [][TickStep
       => /\ ~(/\ SleepProbabilityNow > SLEEP_CONFIDENCE_THRESHOLD * WindowLcm
               /\ SleepProbabilityNow < WAKE_THRESHOLD * WindowLcm)
          /\ ~(nextId' # nextId /\ Len(ioQueue') > Len(ioQueue))
          /\ nextId' # nextId => (isOpen(currentSession') /\ currentSession'.id = nextId)]_vars

\* C36 witness: a tick has just opened a session at a time when the store
\* already holds a record, and nothing is on its way to the store.
C36_Witness ==
  /\ lastOp = [op |-> "performSleepDetection", at |-> "started"]
  /\ isOpen(currentSession)
  /\ currentSession.id = nextId - 1
  /\ ioQueue = <<>>
  /\ StoredSessions # <<>>

\* C37: every record the detector hands to the store has a wakeTime, every
\* stored record of a detected session has one, and while a detected
\* session is open and no save of it is on its way, the store holds no
\* record with its id.
C37_StoreOnlyAtFinalization ==
  /\ \A s \in DetectorSavesInFlight : s.wakeTime # NoTime
  /\ \A i \in DOMAIN StoredSessions :
       ~StoredSessions[i].isManual => StoredSessions[i].wakeTime # NoTime
  /\ (isOpen(currentSession) /\ ~currentSession.isManual
        /\ \A s \in DetectorSavesInFlight : s.id # currentSession.id)
       => \A i \in DOMAIN StoredSessions : StoredSessions[i].id # currentSession.id

\* C37 witness: a detected session is open, nothing is on its way to the
\* store, and the store holds a record, of another session.
C37_Witness ==
  /\ isOpen(currentSession)
  /\ ~currentSession.isManual
  /\ ioQueue = <<>>
  /\ StoredSessions # <<>>
  /\ \A i \in DOMAIN StoredSessions : StoredSessions[i].id # currentSession.id


\* the saves of sessions that have not completed
SavesInFlight ==
  {i \in DOMAIN ioQueue : ioQueue[i].op \in {"getSessions", "setSessions"}}

\* C32: once no save is in flight, and no save's read of the store has
\* failed, the store holds a record of every session whose save has
\* completed: saves that overlap lose no update.
C32_NoUpdateLost ==
  (SavesInFlight = {} /\ ~readFailed)
    => \A id \in savedIds : \E i \in DOMAIN StoredSessions : StoredSessions[i].id = id


\* what isTracking() returns now
isTracking == trackingItem = "true"

\* C31: whenever nothing is in flight, isTracking() returns true only if the
\* detector is active with its evaluation timer running, also after the
\* process was started again and the Dashboard's initialization has run.
C31_FlagImpliesActive ==
  (Idle /\ isTracking) => (isServiceActive /\ timers > 0)

\* the stored setting as getSettings returns it
StoredSettings == getSettingsOutcome(settingsItem, TRUE).value

\* C38: whenever the stored setting autoDetectionEnabled is false and
\* nothing is in flight, the detector is inactive: the flag is off, no
\* evaluation timer is live and isTracking() returns false.
C38_OffMeansInactive ==
  (Idle /\ ~StoredSettings.autoDetectionEnabled)
    => (~isServiceActive /\ timers = 0 /\ ~isTracking)

====
